---------------------------- MODULE Spec2Model ----------------------------
(***************************************************************************)
(* Model of atom/browser/api/atom_api_protocol.cc: the privileged-scheme   *)
(* registry (registerSchemesAsPrivileged / getStandardSchemes) and the     *)
(* per-context Protocol controller.                                        *)
(*                                                                         *)
(* A string is a sequence of one-character strings, so that JoinString is  *)
(* computed character by character as base::JoinString does.               *)
(***************************************************************************)
EXTENDS Integers, Sequences, FiniteSets, TLC

(***************************************************************************)
(* Bounds of the model.                                                    *)
(***************************************************************************)
\* number of calls of registerSchemesAsPrivileged that pass the ready gate
MaxCalls == 2
\* number of operations posted through one controller
MaxOps == 3
\* number of calls that pass the gate when only the standard list is followed
MaxStandardCalls == 3

(***************************************************************************)
(* Scheme registry: inputs.                                                *)
(***************************************************************************)
\* the schemes the application declares: "a" and "bc"
SchemeA == <<"a">>
SchemeBC == <<"b", "c">>

\* the scheme lists the model passes: the empty list and a list with a
\* duplicate included, the code rejects neither
SchemeLists ==
    { << >>, << SchemeA >>, << SchemeA, SchemeBC >>, << SchemeBC, SchemeA >>,
      << SchemeA, SchemeA >> }

\* the six options read at lines 58-63
Flags == { "standard", "secure", "bypassCSP", "allowServiceWorkers",
           "supportFetchAPI", "corsEnabled" }

\* a dictionary mentions some of the flags
Dictionaries == UNION { [D -> BOOLEAN] : D \in SUBSET Flags }

\* the arguments after the scheme list: an options object (present, with its
\* dictionary) or nothing
Options(d) == [ present |-> TRUE, dict |-> d ]

\* args->Length() == 1: no options object was passed
NoOptions == [ present |-> FALSE, dict |-> [k \in {} |-> TRUE] ]

\* the dictionary that sets the flags of D to v and the other flags to w
Mixed(D, v, w) == [ k \in Flags |-> IF k \in D THEN v ELSE w ]

\* the options the model passes: no options object; the empty dictionary;
\* the dictionaries that mention one flag, as false; the dictionaries that
\* mention all six flags and set all of them to false, or standard alone to
\* true
OptionInputs ==
    { NoOptions }
    \cup { Options(d) : d \in { e \in Dictionaries :
                                  /\ Cardinality(DOMAIN e) <= 1
                                  /\ \A k \in DOMAIN e : e[k] = FALSE } }
    \cup { Options(Mixed({"standard"}, TRUE, FALSE)),
           Options(Mixed({}, TRUE, FALSE)) }

\* atom::switches::k*Schemes, the switch of each privilege class
kStandardSchemes == "standard-schemes"
kSecureSchemes == "secure-schemes"
kBypassCSPSchemes == "bypass-csp-schemes"
kCORSSchemes == "cors-schemes"
kFetchSchemes == "fetch-schemes"
kServiceWorkerSchemes == "service-worker-schemes"

Switches == { kStandardSchemes, kSecureSchemes, kBypassCSPSchemes,
              kCORSSchemes, kFetchSchemes, kServiceWorkerSchemes }

\* the switch that propagates each flag
SwitchOf(flag) ==
    CASE flag = "standard" -> kStandardSchemes
      [] flag = "secure" -> kSecureSchemes
      [] flag = "bypassCSP" -> kBypassCSPSchemes
      [] flag = "corsEnabled" -> kCORSSchemes
      [] flag = "supportFetchAPI" -> kFetchSchemes
      [] flag = "allowServiceWorkers" -> kServiceWorkerSchemes

\* the error thrown by the module wrapper after ready
NotReadyError ==
    "protocol.registerSchemesAsPrivileged should be called before app is ready"
NoError == "no-error"

VARIABLES
    ready,                \* atom::Browser::Get()->is_ready()
    g_standard_schemes,   \* the published list of standard schemes
    urlSchemes,           \* url:: tables: standard, secure, csp, cors schemes
    webSafeSchemes,       \* ChildProcessSecurityPolicy web-safe schemes
    serviceWorkerSchemes, \* AtomBrowserClient custom service-worker schemes
    commandLine,          \* per switch, the values appended, in append order
    call,                 \* arguments and the six locals of the last call
                          \* that passed the gate, and of the calls so far
                          \* the list last declared standard
    ncalls,               \* number of calls that passed the gate
    thrown                \* what the last invocation threw

schemeVars == << ready, g_standard_schemes, urlSchemes, webSafeSchemes,
                 serviceWorkerSchemes, commandLine, call, ncalls, thrown >>

VARIABLES
    app,         \* the application driving the controller
    alive,       \* the Protocol object exists: its weak pointers are valid
    jobFactory,  \* the job factory of the context's request-context getter
    ops,         \* the operations posted so far, in call order
    ioQueue,     \* I/O thread: the operations whose task has not run yet
    replyQueue   \* control thread: the operations whose reply has not run yet

protoVars == << app, alive, jobFactory, ops, ioQueue, replyQueue >>

\* the process-global state registerSchemesAsPrivileged writes
Globals == << g_standard_schemes, urlSchemes, webSafeSchemes,
              serviceWorkerSchemes, commandLine >>

(***************************************************************************)
(* Scheme registry: atom::api::RegisterSchemesAsPrivileged.                *)
(***************************************************************************)
\* options.Get(key, &out): writes out only when the dictionary has the key
OptionsGet(dict, key, out) ==
    IF key \in DOMAIN dict THEN dict[key] ELSE out

\* (mutant) the six locals start false when an options object is passed
ParseOptions_DefaultFalse(options) ==
    IF ~options.present
    THEN [k \in Flags |-> TRUE]
    ELSE [k \in Flags |-> OptionsGet(options.dict, k, FALSE)]

\* lines 49-65: the six locals start true; an options object overrides the
\* flags it mentions
ParseOptions(options) ==
    IF ~options.present
    THEN [k \in Flags |-> TRUE]
    ELSE [k \in Flags |-> OptionsGet(options.dict, k, TRUE)]

\* the state the per-scheme loop works on
LoopState(std, url, safe, sw) ==
    [ standard_schemes |-> std, url |-> url, webSafe |-> safe, switches |-> sw ]

\* (mutant) the input is appended to the published list
AssignStandardSchemes_Append(old, schemes) == old \o schemes

\* line 72: g_standard_schemes = schemes
AssignStandardSchemes(old, schemes) == schemes

\* (mutant) the input is published whatever the standard flag says
LoopBody_PublishAlways(st, scheme, schemes, f) ==
    LET s0 == [ st EXCEPT
                  !.standard_schemes = AssignStandardSchemes(@, schemes) ]
        s1 == IF f["standard"]
              THEN [ s0 EXCEPT
                       !.url.standard = @ \cup {scheme},
                       !.switches = @ \cup {kStandardSchemes},
                       !.webSafe = @ \cup {scheme} ]
              ELSE s0
        s2 == IF f["secure"]
              THEN [ s1 EXCEPT !.url.secure = @ \cup {scheme},
                               !.switches = @ \cup {kSecureSchemes} ]
              ELSE s1
        s3 == IF f["bypassCSP"]
              THEN [ s2 EXCEPT !.url.csp = @ \cup {scheme},
                               !.switches = @ \cup {kBypassCSPSchemes} ]
              ELSE s2
        s4 == IF f["corsEnabled"]
              THEN [ s3 EXCEPT !.url.cors = @ \cup {scheme},
                               !.switches = @ \cup {kCORSSchemes} ]
              ELSE s3
        s5 == IF f["supportFetchAPI"]
              THEN [ s4 EXCEPT !.switches = @ \cup {kFetchSchemes} ]
              ELSE s4
    IN  s5

\* lines 71-92: the loop body for one scheme
LoopBody(st, scheme, schemes, f) ==
    LET s1 == IF f["standard"]
              THEN [ st EXCEPT
                       !.standard_schemes = AssignStandardSchemes(@, schemes),
                       !.url.standard = @ \cup {scheme},
                       !.switches = @ \cup {kStandardSchemes},
                       !.webSafe = @ \cup {scheme} ]
              ELSE st
        s2 == IF f["secure"]
              THEN [ s1 EXCEPT !.url.secure = @ \cup {scheme},
                               !.switches = @ \cup {kSecureSchemes} ]
              ELSE s1
        s3 == IF f["bypassCSP"]
              THEN [ s2 EXCEPT !.url.csp = @ \cup {scheme},
                               !.switches = @ \cup {kBypassCSPSchemes} ]
              ELSE s2
        s4 == IF f["corsEnabled"]
              THEN [ s3 EXCEPT !.url.cors = @ \cup {scheme},
                               !.switches = @ \cup {kCORSSchemes} ]
              ELSE s3
        s5 == IF f["supportFetchAPI"]
              THEN [ s4 EXCEPT !.switches = @ \cup {kFetchSchemes} ]
              ELSE s4
    IN  s5

\* lines 69-93: for (const auto& scheme : schemes), from index i on
RECURSIVE SchemeLoop(_, _, _, _)
SchemeLoop(st, i, schemes, f) ==
    IF i > Len(schemes)
    THEN st
    ELSE SchemeLoop(LoopBody(st, schemes[i], schemes, f), i + 1, schemes, f)

\* base::JoinString(parts, separator)
RECURSIVE JoinFrom(_, _, _)
JoinFrom(parts, i, sep) ==
    IF i > Len(parts)
    THEN << >>
    ELSE sep \o parts[i] \o JoinFrom(parts, i + 1, sep)

\* (mutant) a separator follows every part, the last one too
JoinString_Trailing(parts, sep) ==
    IF Len(parts) = 0
    THEN << >>
    ELSE parts[1] \o JoinFrom(parts, 2, sep) \o sep

JoinString(parts, sep) ==
    IF Len(parts) = 0
    THEN << >>
    ELSE parts[1] \o JoinFrom(parts, 2, sep)

\* (mutant) the switch is set, not appended: the value of an earlier call
\* is replaced
AppendSwitches_Replace(cl, switches, value) ==
    [ s \in Switches |-> IF s \in switches THEN << value >> ELSE cl[s] ]

\* lines 102-104: AppendSwitchASCII(_switch, value) for every switch of the
\* set.  The set is unordered: the relative order of the switches of one
\* call is not determined, so the command line is kept per switch name.
AppendSwitches(cl, switches, value) ==
    [ s \in Switches |-> IF s \in switches THEN Append(cl[s], value) ELSE cl[s] ]

\* lines 47-105
ApiRegisterSchemesAsPrivileged(schemes, options) ==
    LET f == ParseOptions(options)
        st == SchemeLoop(LoopState(g_standard_schemes, urlSchemes,
                                   webSafeSchemes, {}),
                         1, schemes, f)
        switches == IF f["allowServiceWorkers"]
                    THEN st.switches \cup {kServiceWorkerSchemes}
                    ELSE st.switches
    IN  /\ g_standard_schemes' = st.standard_schemes
        /\ urlSchemes' = st.url
        /\ webSafeSchemes' = st.webSafe
        /\ serviceWorkerSchemes' =
               IF f["allowServiceWorkers"] THEN schemes ELSE serviceWorkerSchemes
        /\ commandLine' = AppendSwitches(commandLine, switches,
                                         JoinString(schemes, <<",">>))

\* (mutant) the wrapper does not look at is_ready()
RejectsCall_NoGate(isReady) == FALSE

\* line 255: the gate of the module wrapper
RejectsCall(isReady) == isReady

\* the list of the most recent call so far that passed the gate with
\* standard true, this call included; the empty list when there was none
DeclaredStandard(last, schemes, options) ==
    IF ~options.present \/ "standard" \notin DOMAIN options.dict
          \/ options.dict["standard"]
    THEN schemes
    ELSE last.declared

\* the same, of the calls that passed a list that is not empty
DeclaredSomeStandard(last, schemes, options) ==
    IF schemes # << >>
          /\ ( ~options.present \/ "standard" \notin DOMAIN options.dict
                  \/ options.dict["standard"] )
    THEN schemes
    ELSE last.declaredSome

\* lines 253-263: the registerSchemesAsPrivileged the scripting layer calls
RegisterSchemesAsPrivileged(schemes, options) ==
    IF RejectsCall(ready)
    THEN /\ thrown' = NotReadyError
         /\ UNCHANGED << ready, Globals, call, ncalls, protoVars >>
    ELSE /\ ApiRegisterSchemesAsPrivileged(schemes, options)
         /\ call' = [ schemes |-> schemes, options |-> options,
                      flags |-> ParseOptions(options),
                      declared |-> DeclaredStandard(call, schemes, options),
                      declaredSome |->
                          DeclaredSomeStandard(call, schemes, options) ]
         /\ ncalls' = ncalls + 1
         /\ thrown' = NoError
         /\ UNCHANGED << ready, protoVars >>

\* lines 43-45
GetStandardSchemes == g_standard_schemes

\* the application signals ready (atom::Browser, outside this file)
AppReady ==
    /\ ~ready
    /\ ready' = TRUE
    /\ UNCHANGED << Globals, call, ncalls, thrown, protoVars >>

SchemeInit ==
    /\ ready = FALSE
    /\ g_standard_schemes = << >>
    /\ urlSchemes = [ standard |-> {}, secure |-> {}, csp |-> {}, cors |-> {} ]
    /\ webSafeSchemes = {}
    /\ serviceWorkerSchemes = << >>
    /\ commandLine = [ s \in Switches |-> << >> ]
    /\ call = [ schemes |-> << >>, options |-> NoOptions,
                 flags |-> [k \in Flags |-> TRUE],
                 declared |-> << >>, declaredSome |-> << >> ]
    /\ ncalls = 0
    /\ thrown = NoError

CallRegisterSchemes ==
    /\ ready \/ ncalls < MaxCalls
    /\ \E schemes \in SchemeLists, options \in OptionInputs :
          RegisterSchemesAsPrivileged(schemes, options)

\* the calls made when only the standard list is followed: no list, one
\* scheme or two, with no options object or with standard set to false
StandardLists == { << >>, << SchemeA >>, << SchemeA, SchemeBC >> }
StandardOptions == { NoOptions, Options([ k \in {"standard"} |-> FALSE ]) }

CallRegisterStandard ==
    /\ ready \/ ncalls < MaxStandardCalls
    /\ \E schemes \in StandardLists, options \in StandardOptions :
          RegisterSchemesAsPrivileged(schemes, options)

(***************************************************************************)
(* Protocol controller: data.                                              *)
(***************************************************************************)
\* the schemes of the model; https has a built-in handler, foo has none
Schemes == { "foo", "https" }
BuiltinSchemes == { "https" }

\* the request jobs bound at lines 222-244
Strategies == { "String", "Buffer", "File", "Http", "Stream" }

\* a protocol handler of the job factory: the request job and the user's
\* handler function it was built from
Handler(job, fn) == [ job |-> job, fn |-> fn ]
NoHandler == Handler("none", "none")

\* a completion callback, or the null callback of an omitted argument
NullCallback == "null-callback"
CompletionCallbacks == { NullCallback, "cb" }
BooleanCallbacks == { "bcb" }

\* what an application does with the protocol object: the schemes it names,
\* the handlers it installs and the completion callback it passes.  An
\* application works on one scheme with two handlers, with or without a
\* completion callback, or on both schemes with one handler.
Application(schemes, handlers, callbacks) ==
    [ schemes |-> schemes, handlers |-> handlers, callbacks |-> callbacks ]

Apps ==
    { Application({s}, { Handler("String", "h1"), Handler("String", "h2") }, {cb}) :
        s \in Schemes, cb \in CompletionCallbacks }
    \cup { Application({"foo"}, { Handler("Buffer", "h1"), Handler("File", "h1") },
                       {"cb"}),
           Application({"foo"}, { Handler("Http", "h1"), Handler("Stream", "h1") },
                       {"cb"}),
           Application(Schemes, { Handler("Http", "h1") }, {"cb"}) }

\* enum ProtocolError
PROTOCOL_OK == "PROTOCOL_OK"
PROTOCOL_FAIL == "PROTOCOL_FAIL"
PROTOCOL_REGISTERED == "PROTOCOL_REGISTERED"
PROTOCOL_NOT_REGISTERED == "PROTOCOL_NOT_REGISTERED"
PROTOCOL_INTERCEPTED == "PROTOCOL_INTERCEPTED"
PROTOCOL_NOT_INTERCEPTED == "PROTOCOL_NOT_INTERCEPTED"

ProtocolErrors == { PROTOCOL_OK, PROTOCOL_FAIL, PROTOCOL_REGISTERED,
                    PROTOCOL_NOT_REGISTERED, PROTOCOL_INTERCEPTED,
                    PROTOCOL_NOT_INTERCEPTED }

\* the value a task returns on the I/O thread: a ProtocolError or a bool
NoResult == [ type |-> "none", error |-> "none", handled |-> FALSE ]
ErrorResult(e) == [ type |-> "error", error |-> e, handled |-> FALSE ]
BoolResult(b) == [ type |-> "bool", error |-> "none", handled |-> b ]

\* the argument a callback is run with
NullArg == [ type |-> "null", message |-> "", value |-> FALSE ]
ErrorArg(m) == [ type |-> "error", message |-> m, value |-> FALSE ]
BoolArg(b) == [ type |-> "bool", message |-> "", value |-> b ]

\* what became of the reply of an operation
Pending == [ state |-> "pending", arg |-> NullArg ]
Dropped == [ state |-> "dropped", arg |-> NullArg ]
NotInvoked == [ state |-> "not-invoked", arg |-> NullArg ]
Invoked(arg) == [ state |-> "invoked", arg |-> arg ]

\* the threads of content::BrowserThread the controller works with
BrowserThreadUI == "UI"
BrowserThreadIO == "IO"

\* one call into the job factory, made on a thread
Access(thread, method) == [ thread |-> thread, method |-> method ]

\* the calls a task makes, in order, all on the thread that runs it
Accesses(thread, methods) ==
    [ i \in 1..Len(methods) |-> Access(thread, methods[i]) ]

(***************************************************************************)
(* The job factory.                                                        *)
(***************************************************************************)
HasProtocolHandler(jf, scheme) == jf.handlers[scheme] # NoHandler

SetProtocolHandler(jf, scheme, handler) ==
    [ jf EXCEPT !.handlers[scheme] = handler ]

IsHandledProtocol(jf, scheme) ==
    scheme \in BuiltinSchemes \/ jf.handlers[scheme] # NoHandler

\* [ok, jf]: false and no change when the scheme is intercepted already
JobFactoryInterceptProtocol(jf, scheme, handler) ==
    IF jf.interceptors[scheme] # NoHandler
    THEN [ ok |-> FALSE, jf |-> jf ]
    ELSE [ ok |-> TRUE, jf |-> [ jf EXCEPT !.interceptors[scheme] = handler ] ]

\* [ok, jf]: false and no change when the scheme is not intercepted
JobFactoryUninterceptProtocol(jf, scheme) ==
    IF jf.interceptors[scheme] = NoHandler
    THEN [ ok |-> FALSE, jf |-> jf ]
    ELSE [ ok |-> TRUE, jf |-> [ jf EXCEPT !.interceptors[scheme] = NoHandler ] ]

(***************************************************************************)
(* I/O-thread tasks: [ret, jf, calls], the value returned, the job factory *)
(* the task leaves and the methods of the job factory it called, in order. *)
(***************************************************************************)
\* (mutant) the new handler replaces whatever handler there is
RegisterProtocolInIO_Replace(jf, scheme, handler) ==
    [ ret |-> PROTOCOL_OK, jf |-> SetProtocolHandler(jf, scheme, handler),
      calls |-> << "SetProtocolHandler" >> ]

\* register<Strategy>Protocol on the I/O thread: PROTOCOL_REGISTERED when a
\* handler exists for the scheme already
RegisterProtocolInIO(jf, scheme, handler) ==
    IF IsHandledProtocol(jf, scheme)
    THEN [ ret |-> PROTOCOL_REGISTERED, jf |-> jf,
           calls |-> << "IsHandledProtocol" >> ]
    ELSE [ ret |-> PROTOCOL_OK, jf |-> SetProtocolHandler(jf, scheme, handler),
           calls |-> << "IsHandledProtocol", "SetProtocolHandler" >> ]

\* (mutant) the handler is removed without looking whether there is one
UnregisterProtocolInIO_NoCheck(jf, scheme) ==
    [ ret |-> PROTOCOL_OK, jf |-> SetProtocolHandler(jf, scheme, NoHandler),
      calls |-> << "SetProtocolHandler" >> ]

\* (mutant) the handler is cleared whether or not there is one
UnregisterProtocolInIO_SetAlways(jf, scheme) ==
    [ ret |-> IF HasProtocolHandler(jf, scheme)
              THEN PROTOCOL_OK
              ELSE PROTOCOL_NOT_REGISTERED,
      jf |-> SetProtocolHandler(jf, scheme, NoHandler),
      calls |-> << "HasProtocolHandler", "SetProtocolHandler" >> ]

\* (mutant) a scheme that is not registered has its override removed
\* instead
UnregisterProtocolInIO_Uninstalls(jf, scheme) ==
    IF ~HasProtocolHandler(jf, scheme)
    THEN [ ret |-> PROTOCOL_NOT_REGISTERED,
           jf |-> JobFactoryUninterceptProtocol(jf, scheme).jf,
           calls |-> << "HasProtocolHandler", "UninterceptProtocol" >> ]
    ELSE [ ret |-> PROTOCOL_OK, jf |-> SetProtocolHandler(jf, scheme, NoHandler),
           calls |-> << "HasProtocolHandler", "SetProtocolHandler" >> ]

\* lines 127-135
UnregisterProtocolInIO(jf, scheme) ==
    IF ~HasProtocolHandler(jf, scheme)
    THEN [ ret |-> PROTOCOL_NOT_REGISTERED, jf |-> jf,
           calls |-> << "HasProtocolHandler" >> ]
    ELSE [ ret |-> PROTOCOL_OK, jf |-> SetProtocolHandler(jf, scheme, NoHandler),
           calls |-> << "HasProtocolHandler", "SetProtocolHandler" >> ]

\* (mutant) the answer is whether a handler was registered for the scheme
IsProtocolHandledInIO_RegisteredOnly(jf, scheme) ==
    [ ret |-> HasProtocolHandler(jf, scheme), jf |-> jf,
      calls |-> << "HasProtocolHandler" >> ]

\* lines 149-153
IsProtocolHandledInIO(jf, scheme) ==
    [ ret |-> IsHandledProtocol(jf, scheme), jf |-> jf,
      calls |-> << "IsHandledProtocol" >> ]

\* intercept<Strategy>Protocol on the I/O thread: PROTOCOL_INTERCEPTED when
\* an override is in place already
InterceptProtocolInIO(jf, scheme, handler) ==
    LET r == JobFactoryInterceptProtocol(jf, scheme, handler)
    IN  [ ret |-> IF r.ok THEN PROTOCOL_OK ELSE PROTOCOL_INTERCEPTED,
          jf |-> r.jf, calls |-> << "InterceptProtocol" >> ]

\* (mutant) the two statuses are swapped
UninterceptProtocolInIO_Swapped(jf, scheme) ==
    LET r == JobFactoryUninterceptProtocol(jf, scheme)
    IN  [ ret |-> IF r.ok THEN PROTOCOL_NOT_INTERCEPTED ELSE PROTOCOL_OK,
          jf |-> r.jf, calls |-> << "UninterceptProtocol" >> ]

\* (mutant) removing the override of a scheme unregisters it as well
UninterceptProtocolInIO_AlsoUnregisters(jf, scheme) ==
    LET r == JobFactoryUninterceptProtocol(jf, scheme)
    IN  [ ret |-> IF r.ok THEN PROTOCOL_OK ELSE PROTOCOL_NOT_INTERCEPTED,
          jf |-> SetProtocolHandler(r.jf, scheme, NoHandler),
          calls |-> << "UninterceptProtocol", "SetProtocolHandler" >> ]

\* lines 169-175
UninterceptProtocolInIO(jf, scheme) ==
    LET r == JobFactoryUninterceptProtocol(jf, scheme)
    IN  [ ret |-> IF r.ok THEN PROTOCOL_OK ELSE PROTOCOL_NOT_INTERCEPTED,
          jf |-> r.jf, calls |-> << "UninterceptProtocol" >> ]

(***************************************************************************)
(* Completion reporter.                                                    *)
(***************************************************************************)
\* (mutant) the messages of the two 'not' statuses are exchanged
ErrorCodeToString_Exchanged(error) ==
    CASE error = PROTOCOL_FAIL -> "Failed to manipulate protocol factory"
      [] error = PROTOCOL_REGISTERED -> "The scheme has been registered"
      [] error = PROTOCOL_NOT_REGISTERED -> "The scheme has not been intercepted"
      [] error = PROTOCOL_INTERCEPTED -> "The scheme has been intercepted"
      [] error = PROTOCOL_NOT_INTERCEPTED -> "The scheme has not been registered"
      [] OTHER -> "Unexpected error"

\* lines 194-209
ErrorCodeToString(error) ==
    CASE error = PROTOCOL_FAIL -> "Failed to manipulate protocol factory"
      [] error = PROTOCOL_REGISTERED -> "The scheme has been registered"
      [] error = PROTOCOL_NOT_REGISTERED -> "The scheme has not been registered"
      [] error = PROTOCOL_INTERCEPTED -> "The scheme has been intercepted"
      [] error = PROTOCOL_NOT_INTERCEPTED -> "The scheme has not been intercepted"
      [] OTHER -> "Unexpected error"

\* lines 177-192: what the reply of a mutating operation does
OnIOCompleted(callback, error) ==
    IF callback = NullCallback
    THEN NotInvoked
    ELSE IF error = PROTOCOL_OK
         THEN Invoked(NullArg)
         ELSE Invoked(ErrorArg(ErrorCodeToString(error)))

\* (mutant) the reply is bound to the controller itself, not to a weak
\* pointer: it runs whether or not the controller is still there
RunBoundReply_Unretained(isAlive, callback, error) ==
    OnIOCompleted(callback, error)

\* lines 123 and 165: the reply is bound to GetWeakPtr(); it runs
\* OnIOCompleted when the weak pointer is valid and nothing when it is not
RunBoundReply(isAlive, callback, error) ==
    IF isAlive THEN OnIOCompleted(callback, error) ELSE Dropped

(***************************************************************************)
(* Control thread: the methods of the Protocol object.  Each one posts a   *)
(* task to the I/O thread with the reply to run afterwards.                *)
(***************************************************************************)
\* a PendingOperation, with what is known of its round trip: the value its
\* task returned, the calls into the job factory made for it, and what its
\* reply did
Operation(op, scheme, handler, callback) ==
    [ op |-> op, scheme |-> scheme, handler |-> handler, callback |-> callback,
      result |-> NoResult, calls |-> << >>, outcome |-> Pending ]

\* BrowserThread::PostTaskAndReplyWithResult(IO, task, reply)
PostTaskAndReplyWithResult(operation) ==
    /\ alive
    /\ Len(ops) < MaxOps
    /\ ops' = Append(ops, operation)
    /\ ioQueue' = Append(ioQueue, Len(ops) + 1)
    /\ UNCHANGED << app, alive, jobFactory, replyQueue, schemeVars >>

RegisterProtocol(scheme, handler, callback) ==
    PostTaskAndReplyWithResult(Operation("register", scheme, handler, callback))

\* lines 113-124
UnregisterProtocol(scheme, callback) ==
    PostTaskAndReplyWithResult(
        Operation("unregister", scheme, NoHandler, callback))

\* (mutant) the method asks the job factory itself, on the calling thread,
\* and posts only the reply
IsProtocolHandled_OnCaller(scheme, callback) ==
    /\ alive
    /\ Len(ops) < MaxOps
    /\ ops' = Append(ops,
                [ Operation("isHandled", scheme, NoHandler, callback) EXCEPT
                    !.result = BoolResult(IsHandledProtocol(jobFactory, scheme)),
                    !.calls = << Access(BrowserThreadUI, "IsHandledProtocol") >> ])
    /\ replyQueue' = Append(replyQueue, Len(ops) + 1)
    /\ UNCHANGED << app, alive, jobFactory, ioQueue, schemeVars >>

\* lines 137-146
IsProtocolHandled(scheme, callback) ==
    PostTaskAndReplyWithResult(
        Operation("isHandled", scheme, NoHandler, callback))

InterceptProtocol(scheme, handler, callback) ==
    PostTaskAndReplyWithResult(Operation("intercept", scheme, handler, callback))

\* lines 155-166
UninterceptProtocol(scheme, callback) ==
    PostTaskAndReplyWithResult(
        Operation("unintercept", scheme, NoHandler, callback))

(***************************************************************************)
(* I/O thread: runs the task at the head of its queue and posts the reply. *)
(***************************************************************************)
IOTask(operation, jf) ==
    CASE operation.op = "register" ->
             RegisterProtocolInIO(jf, operation.scheme, operation.handler)
      [] operation.op = "unregister" ->
             UnregisterProtocolInIO(jf, operation.scheme)
      [] operation.op = "intercept" ->
             InterceptProtocolInIO(jf, operation.scheme, operation.handler)
      [] operation.op = "unintercept" ->
             UninterceptProtocolInIO(jf, operation.scheme)
      [] operation.op = "isHandled" ->
             IsProtocolHandledInIO(jf, operation.scheme)

\* (mutant) the I/O thread runs the task posted last first
RunIOTask_Lifo ==
    /\ ioQueue # << >>
    /\ LET id == ioQueue[Len(ioQueue)]
           r == IOTask(ops[id], jobFactory)
       IN  /\ jobFactory' = r.jf
           /\ ops' = [ ops EXCEPT ![id].result =
                          IF ops[id].op = "isHandled"
                          THEN BoolResult(r.ret)
                          ELSE ErrorResult(r.ret),
                                    ![id].calls =
                          Accesses(BrowserThreadIO, r.calls) ]
           /\ ioQueue' = SubSeq(ioQueue, 1, Len(ioQueue) - 1)
           /\ replyQueue' = Append(replyQueue, id)
    /\ UNCHANGED << app, alive, schemeVars >>

\* (mutant) the task runs and its reply is never posted
RunIOTask_NoReply ==
    /\ ioQueue # << >>
    /\ LET id == Head(ioQueue)
           r == IOTask(ops[id], jobFactory)
       IN  /\ jobFactory' = r.jf
           /\ ops' = [ ops EXCEPT ![id].result =
                          IF ops[id].op = "isHandled"
                          THEN BoolResult(r.ret)
                          ELSE ErrorResult(r.ret),
                                    ![id].calls =
                          Accesses(BrowserThreadIO, r.calls) ]
           /\ ioQueue' = Tail(ioQueue)
           /\ replyQueue' = replyQueue
    /\ UNCHANGED << app, alive, schemeVars >>

\* (mutant) the task is bound to the controller: once the controller is
\* gone it does nothing and reports a failure
RunIOTask_Cancellable ==
    /\ ioQueue # << >>
    /\ LET id == Head(ioQueue)
           r == IF alive
                THEN IOTask(ops[id], jobFactory)
                ELSE [ ret |-> IF ops[id].op = "isHandled"
                               THEN FALSE
                               ELSE PROTOCOL_FAIL,
                       jf |-> jobFactory, calls |-> << >> ]
       IN  /\ jobFactory' = r.jf
           /\ ops' = [ ops EXCEPT ![id].result =
                          IF ops[id].op = "isHandled"
                          THEN BoolResult(r.ret)
                          ELSE ErrorResult(r.ret),
                                    ![id].calls =
                          Accesses(BrowserThreadIO, r.calls) ]
           /\ ioQueue' = Tail(ioQueue)
           /\ replyQueue' = Append(replyQueue, id)
    /\ UNCHANGED << app, alive, schemeVars >>

RunIOTask ==
    /\ ioQueue # << >>
    /\ LET id == Head(ioQueue)
           r == IOTask(ops[id], jobFactory)
       IN  /\ jobFactory' = r.jf
           /\ ops' = [ ops EXCEPT ![id].result =
                          IF ops[id].op = "isHandled"
                          THEN BoolResult(r.ret)
                          ELSE ErrorResult(r.ret),
                                    ![id].calls =
                          Accesses(BrowserThreadIO, r.calls) ]
           /\ ioQueue' = Tail(ioQueue)
           /\ replyQueue' = Append(replyQueue, id)
    /\ UNCHANGED << app, alive, schemeVars >>

(***************************************************************************)
(* Control thread: runs the reply at the head of its queue.                *)
(***************************************************************************)
\* the reply of a mutating operation: OnIOCompleted through the weak pointer
RunCompletionReply ==
    /\ replyQueue # << >>
    /\ ops[Head(replyQueue)].op # "isHandled"
    /\ LET id == Head(replyQueue)
       IN  ops' = [ ops EXCEPT ![id].outcome =
                       RunBoundReply(alive, ops[id].callback,
                                     ops[id].result.error) ]
    /\ replyQueue' = Tail(replyQueue)
    /\ UNCHANGED << app, alive, jobFactory, ioQueue, schemeVars >>

\* lines 141-145: the reply of isProtocolHandled is the boolean callback
\* itself
RunBooleanReply ==
    /\ replyQueue # << >>
    /\ ops[Head(replyQueue)].op = "isHandled"
    /\ LET id == Head(replyQueue)
       IN  ops' = [ ops EXCEPT ![id].outcome =
                       Invoked(BoolArg(ops[id].result.handled)) ]
    /\ replyQueue' = Tail(replyQueue)
    /\ UNCHANGED << app, alive, jobFactory, ioQueue, schemeVars >>

\* line 112: the Protocol object is destroyed
DestroyProtocol ==
    /\ alive
    /\ alive' = FALSE
    /\ UNCHANGED << app, jobFactory, ops, ioQueue, replyQueue, schemeVars >>

FreshJobFactory ==
    [ handlers |-> [ s \in Schemes |-> NoHandler ],
      interceptors |-> [ s \in Schemes |-> NoHandler ] ]

ProtocolInit ==
    /\ app \in Apps
    /\ alive = TRUE
    /\ jobFactory = FreshJobFactory
    /\ ops = << >>
    /\ ioQueue = << >>
    /\ replyQueue = << >>

CallRegisterProtocol ==
    \E s \in app.schemes, h \in app.handlers, cb \in app.callbacks :
        RegisterProtocol(s, h, cb)

CallUnregisterProtocol ==
    \E s \in app.schemes, cb \in app.callbacks : UnregisterProtocol(s, cb)

CallIsProtocolHandled ==
    \E s \in app.schemes, cb \in BooleanCallbacks : IsProtocolHandled(s, cb)

CallInterceptProtocol ==
    \E s \in app.schemes, h \in app.handlers, cb \in app.callbacks :
        InterceptProtocol(s, h, cb)

CallUninterceptProtocol ==
    \E s \in app.schemes, cb \in app.callbacks : UninterceptProtocol(s, cb)

\* the task at the head of the I/O thread's queue is of this kind
NextTaskIs(kind) == ioQueue # << >> /\ ops[Head(ioQueue)].op = kind

RunRegisterTask == NextTaskIs("register") /\ RunIOTask
RunUnregisterTask == NextTaskIs("unregister") /\ RunIOTask
RunIsHandledTask == NextTaskIs("isHandled") /\ RunIOTask
RunInterceptTask == NextTaskIs("intercept") /\ RunIOTask
RunUninterceptTask == NextTaskIs("unintercept") /\ RunIOTask

\* the operations whose reply OnIOCompleted reports
Mutating == { "register", "unregister", "intercept", "unintercept" }

\* a reply waiting on the control thread for every status OnIOCompleted can
\* be handed, with and without a completion callback
ReplyInputs ==
    { [ Operation(op, "foo", NoHandler, cb) EXCEPT !.result = ErrorResult(e) ] :
        op \in { "unregister", "unintercept" }, cb \in CompletionCallbacks,
        e \in ProtocolErrors }

ReporterInit ==
    /\ SchemeInit
    /\ app \in { a \in Apps : a.schemes = Schemes }
    /\ alive = TRUE
    /\ jobFactory = FreshJobFactory
    /\ ops \in UNION { [1..n -> ReplyInputs] : n \in 1..(MaxOps - 1) }
    /\ ioQueue = << >>
    /\ replyQueue = [ i \in 1..Len(ops) |-> i ]

vars == << schemeVars, protoVars >>

Init == SchemeInit /\ ProtocolInit

\* the scheme registry and the protocol controller share no state: each is
\* checked with the other at rest
SchemeNext == CallRegisterSchemes \/ AppReady

ProtocolNext ==
    \/ CallRegisterProtocol
    \/ CallUnregisterProtocol
    \/ CallIsProtocolHandled
    \/ CallInterceptProtocol
    \/ CallUninterceptProtocol
    \/ RunRegisterTask
    \/ RunUnregisterTask
    \/ RunIsHandledTask
    \/ RunInterceptTask
    \/ RunUninterceptTask
    \/ RunCompletionReply
    \/ RunBooleanReply
    \/ DestroyProtocol

ReporterNext == RunCompletionReply \/ DestroyProtocol

Next == SchemeNext \/ ProtocolNext

Spec == Init /\ [][Next]_vars

\* the scheme registry is driven with one protocol object at rest
SchemeStart == Init /\ app.schemes = Schemes

SchemeSpec == SchemeStart /\ [][SchemeNext]_vars

\* the scheme registry over more calls, of fewer kinds
StandardNext == CallRegisterStandard \/ AppReady

StandardSpec == SchemeStart /\ [][StandardNext]_vars

ProtocolSpec == Init /\ [][ProtocolNext]_vars

\* OnIOCompleted on every status: the replies are there from the start
ReporterSpec == ReporterInit /\ [][ReporterNext]_vars

\* the message loops of the two threads: a task or a reply that was posted
\* is run
Fairness ==
    /\ WF_vars(RunIOTask)
    /\ WF_vars(RunCompletionReply)
    /\ WF_vars(RunBooleanReply)

\* an application that works on foo with one String handler and passes a
\* completion callback to every operation
FairInit ==
    /\ SchemeInit
    /\ app = Application({"foo"}, { Handler("String", "h1") }, {"cb"})
    /\ alive = TRUE
    /\ jobFactory = FreshJobFactory
    /\ ops = << >>
    /\ ioQueue = << >>
    /\ replyQueue = << >>

\* the protocol controller with both threads scheduled fairly
FairSpec == FairInit /\ [][ProtocolNext]_vars /\ Fairness

(***************************************************************************)
(* Scheme registry: properties.                                            *)
(***************************************************************************)
\* this step is a call that passed the gate
CallStep == ncalls' = ncalls + 1

\* flag k is true in the options o: o does not set it to false
Requested(o, k) == ~o.present \/ k \notin DOMAIN o.dict \/ o.dict[k]

\* this step appends exactly one value to switch sw
Appends(sw) ==
    /\ Len(commandLine'[sw]) = Len(commandLine[sw]) + 1
    /\ SubSeq(commandLine'[sw], 1, Len(commandLine[sw])) = commandLine[sw]

\* where part i starts in the comma join of parts, counted from 0
RECURSIVE Offset(_, _)
Offset(parts, i) ==
    IF i = 1 THEN 0 ELSE Offset(parts, i - 1) + Len(parts[i - 1]) + 1

\* v is the parts in their order, a single comma between two neighbours
IsCommaJoined(v, parts) ==
    /\ Len(v) = IF parts = << >> THEN 0 ELSE Offset(parts, Len(parts) + 1) - 1
    /\ \A i \in 1..Len(parts) :
          /\ SubSeq(v, Offset(parts, i) + 1, Offset(parts, i) + Len(parts[i]))
                 = parts[i]
          /\ i < Len(parts) => v[Offset(parts, i) + Len(parts[i]) + 1] = ","

\* C1: once the application is ready, a call of registerSchemesAsPrivileged
\* throws the 'should be called before app is ready' error, and
\* StandardSchemeList, the URL tables, the web-safe schemes, the
\* service-worker schemes and the command line never change again.
C1_ReadyFreezesGlobals ==
    [][ ready => /\ ready'
                 /\ Globals' = Globals
                 /\ schemeVars' # schemeVars => thrown' = NotReadyError ]_vars

\* C1 (witness): a call was rejected after two calls had published schemes
C1_Witness ==
    /\ ready
    /\ thrown = NotReadyError
    /\ ncalls = MaxCalls
    /\ g_standard_schemes # << >>

\* C2 (as claimed): after two successive calls that both declare standard
\* schemes, with lists L1 then L2, getStandardSchemes() is L2.
C2_Original ==
    [][ ( /\ CallStep
          /\ ncalls >= 1
          /\ Requested(call.options, "standard")
          /\ Requested(call'.options, "standard") )
        => GetStandardSchemes' = call'.schemes ]_vars

\* C2 (amended): after two successive calls that both declare standard
\* schemes, with lists L1 then L2, getStandardSchemes() is L2 when L2 is not
\* empty (overwritten, not appended to), and is what it was before the
\* second call when L2 is empty.
C2_StandardListOverwritten ==
    [][ ( /\ CallStep
          /\ ncalls >= 1
          /\ Requested(call.options, "standard")
          /\ Requested(call'.options, "standard") )
        => GetStandardSchemes' = IF call'.schemes # << >>
                                 THEN call'.schemes
                                 ELSE GetStandardSchemes ]_vars

\* C2 (witness): two calls declared different non-empty standard lists and
\* the second one is published
C2_Witness ==
    /\ ncalls = 2
    /\ Len(commandLine[kStandardSchemes]) = 2
    /\ commandLine[kStandardSchemes][1] # commandLine[kStandardSchemes][2]
    /\ Len(call.schemes) = 2
    /\ GetStandardSchemes = call.schemes

\* C3: a call with a non-empty scheme list appends exactly one switch for
\* each privilege class whose flag is true in the options and none for a
\* class whose flag is false; the value of every appended switch is the
\* input schemes joined by commas in input order.
C3_OneSwitchPerRequestedClass ==
    [][ (CallStep /\ call'.schemes # << >>)
        => \A k \in Flags :
              IF Requested(call'.options, k)
              THEN /\ Appends(SwitchOf(k))
                   /\ IsCommaJoined(commandLine'[SwitchOf(k)]
                                        [Len(commandLine'[SwitchOf(k)])],
                                    call'.schemes)
              ELSE commandLine'[SwitchOf(k)] = commandLine[SwitchOf(k)] ]_vars

\* C3 (witness): registerSchemesAsPrivileged(["a","bc"], {standard: true,
\* every other flag false}) added only standard-schemes=a,bc
C3_Witness ==
    /\ ncalls = 1
    /\ call.schemes = << <<"a">>, <<"b", "c">> >>
    /\ call.options = Options(Mixed({"standard"}, TRUE, FALSE))
    /\ commandLine[kStandardSchemes] = << <<"a", ",", "b", "c">> >>
    /\ \A sw \in Switches \ {kStandardSchemes} : commandLine[sw] = << >>
    /\ GetStandardSchemes = call.schemes

\* C4 (as claimed): a call without an options object treats all six flags
\* as true: all six switches are appended and StandardSchemeList becomes
\* the input list; with an options object every flag it does not mention
\* stays true.
C4_Original ==
    [][ CallStep
        => /\ ~call'.options.present
              => /\ \A k \in Flags : call'.flags[k]
                 /\ \A sw \in Switches : Appends(sw)
                 /\ GetStandardSchemes' = call'.schemes
           /\ call'.options.present
              => \A k \in Flags \ DOMAIN call'.options.dict :
                     call'.flags[k] ]_vars

\* C4 (amended): a call without an options object treats all six flags as
\* true; when its scheme list is not empty all six switches are appended
\* and StandardSchemeList becomes the input list, and when the list is empty
\* only the service-worker switch is appended and StandardSchemeList stays.
\* With an options object every flag it does not mention stays true.
C4_DefaultsTrue ==
    [][ CallStep
        => /\ ~call'.options.present
              => /\ \A k \in Flags : call'.flags[k]
                 /\ IF call'.schemes # << >>
                    THEN /\ \A sw \in Switches : Appends(sw)
                         /\ GetStandardSchemes' = call'.schemes
                    ELSE /\ Appends(kServiceWorkerSchemes)
                         /\ \A sw \in Switches \ {kServiceWorkerSchemes} :
                               commandLine'[sw] = commandLine[sw]
                         /\ GetStandardSchemes' = GetStandardSchemes
           /\ call'.options.present
              => \A k \in Flags \ DOMAIN call'.options.dict :
                    /\ call'.flags[k]
                    /\ (call'.schemes # << >> \/ k = "allowServiceWorkers")
                          => Appends(SwitchOf(k)) ]_vars

\* C4 (witness): registerSchemesAsPrivileged(["a"]) added all six switches,
\* each valued a, and published ["a"]
C4_Witness ==
    /\ ncalls = 1
    /\ ~call.options.present
    /\ call.schemes = << <<"a">> >>
    /\ \A sw \in Switches : commandLine[sw] = << <<"a">> >>
    /\ GetStandardSchemes = << <<"a">> >>

(***************************************************************************)
(* Protocol controller: properties.                                        *)
(***************************************************************************)
\* this step runs, on the I/O thread, the task of an operation of this kind
IOStep(kind) ==
    /\ ioQueue # << >>
    /\ ioQueue' = Tail(ioQueue)
    /\ ops[Head(ioQueue)].op = kind

\* in such a step: the operation, and the status its task returns
Task == ops[Head(ioQueue)]
Status == ops'[Head(ioQueue)].result.error

\* this step runs, on the control thread, the reply of a mutating operation
ReplyStep ==
    /\ replyQueue # << >>
    /\ replyQueue' = Tail(replyQueue)
    /\ ops[Head(replyQueue)].op \in Mutating

\* in such a step: the operation before and after its reply
Replied == ops[Head(replyQueue)]
RepliedAfter == ops'[Head(replyQueue)]

\* the fixed message of every status but OK
MessageOf ==
    [ e \in ProtocolErrors \ {PROTOCOL_OK} |->
        CASE e = PROTOCOL_FAIL -> "Failed to manipulate protocol factory"
          [] e = PROTOCOL_REGISTERED -> "The scheme has been registered"
          [] e = PROTOCOL_NOT_REGISTERED -> "The scheme has not been registered"
          [] e = PROTOCOL_INTERCEPTED -> "The scheme has been intercepted"
          [] e = PROTOCOL_NOT_INTERCEPTED ->
                 "The scheme has not been intercepted" ]

\* what a completion callback is told of a status: null or the error
Told(e) == IF e = PROTOCOL_OK THEN NullArg ELSE ErrorArg(MessageOf[e])

\* the operations posted are these, in this order
Posted(kinds, scheme) ==
    /\ Len(ops) = Len(kinds)
    /\ \A i \in 1..Len(kinds) :
          ops[i].op = kinds[i] /\ ops[i].scheme = scheme

\* C5: register<Strategy>Protocol(s, h) run when no handler exists for s
\* completes with OK and leaves s registered with h; run when s is already
\* registered it completes with PROTOCOL_REGISTERED ('The scheme has been
\* registered') and the handler registered before stays in place.
C5_RegisterOnceOnly ==
    [][ /\ IOStep("register")
           => /\ ~IsHandledProtocol(jobFactory, Task.scheme)
                 => /\ Status = PROTOCOL_OK
                    /\ jobFactory'.handlers[Task.scheme] = Task.handler
              /\ jobFactory.handlers[Task.scheme] # NoHandler
                 => /\ Status = PROTOCOL_REGISTERED
                    /\ jobFactory'.handlers = jobFactory.handlers
        /\ (ReplyStep /\ Replied.op = "register" /\ alive
              /\ Replied.callback # NullCallback)
           => RepliedAfter.outcome = Invoked(Told(Replied.result.error))
      ]_vars

\* C5 (witness): foo was registered with a Stream handler, a second
\* registration with an Http handler was told 'The scheme has been
\* registered', and the Stream handler is still the one registered
C5_Witness ==
    /\ Posted(<< "register", "register" >>, "foo")
    /\ ops[1].handler = Handler("Stream", "h1")
    /\ ops[2].handler = Handler("Http", "h1")
    /\ ops[1].outcome = Invoked(NullArg)
    /\ ops[2].outcome = Invoked(ErrorArg("The scheme has been registered"))
    /\ jobFactory.handlers["foo"] = Handler("Stream", "h1")

\* C6: unregisterProtocol(s) completes with OK exactly when a handler is
\* registered for s at the moment its I/O task runs, and then s has no
\* registered handler; otherwise it completes with PROTOCOL_NOT_REGISTERED
\* ('The scheme has not been registered').
C6_UnregisterIffRegistered ==
    [][ /\ IOStep("unregister")
           => /\ Status = PROTOCOL_OK
                    <=> jobFactory.handlers[Task.scheme] # NoHandler
              /\ Status = PROTOCOL_OK
                    => jobFactory'.handlers[Task.scheme] = NoHandler
              /\ Status # PROTOCOL_OK
                    => /\ Status = PROTOCOL_NOT_REGISTERED
                       /\ jobFactory' = jobFactory
        /\ (ReplyStep /\ Replied.op = "unregister" /\ alive
              /\ Replied.callback # NullCallback)
           => RepliedAfter.outcome = Invoked(Told(Replied.result.error))
      ]_vars

\* C6 (witness): foo was registered, unregistered with success, and a second
\* unregisterProtocol was told 'The scheme has not been registered'
C6_Witness ==
    /\ Posted(<< "register", "unregister", "unregister" >>, "foo")
    /\ ops[2].outcome = Invoked(NullArg)
    /\ ops[3].outcome = Invoked(ErrorArg("The scheme has not been registered"))
    /\ jobFactory.handlers["foo"] = NoHandler

\* C7: every scheme starts not intercepted; intercept<Strategy>Protocol(s, h)
\* completes with OK when no override is in place and with
\* PROTOCOL_INTERCEPTED when one is; uninterceptProtocol(s) completes with
\* OK exactly when an override is in place, and removes it, otherwise with
\* PROTOCOL_NOT_INTERCEPTED.  Intercept, unintercept, unintercept on a fresh
\* context yields OK, OK, NOT_INTERCEPTED.
C7_InterceptLaws ==
    /\ [][ /\ IOStep("intercept")
              => IF jobFactory.interceptors[Task.scheme] = NoHandler
                 THEN /\ Status = PROTOCOL_OK
                      /\ jobFactory'.interceptors[Task.scheme] = Task.handler
                 ELSE /\ Status = PROTOCOL_INTERCEPTED
                      /\ jobFactory' = jobFactory
           /\ IOStep("unintercept")
              => /\ Status = PROTOCOL_OK
                       <=> jobFactory.interceptors[Task.scheme] # NoHandler
                 /\ Status = PROTOCOL_OK
                       => jobFactory'.interceptors[Task.scheme] = NoHandler
                 /\ Status # PROTOCOL_OK
                       => /\ Status = PROTOCOL_NOT_INTERCEPTED
                          /\ jobFactory' = jobFactory
           /\ (ReplyStep /\ Replied.op \in { "intercept", "unintercept" }
                 /\ alive /\ Replied.callback # NullCallback)
              => RepliedAfter.outcome = Invoked(Told(Replied.result.error))
         ]_vars
    /\ [](ops = << >> =>
             \A s \in Schemes : jobFactory.interceptors[s] = NoHandler)
    /\ [](\A s \in Schemes :
             ( /\ Posted(<< "intercept", "unintercept", "unintercept" >>, s)
               /\ ioQueue = << >> )
             => /\ ops[1].result.error = PROTOCOL_OK
                /\ ops[2].result.error = PROTOCOL_OK
                /\ ops[3].result.error = PROTOCOL_NOT_INTERCEPTED)

\* C7 (witness): interceptStringProtocol("https"), uninterceptProtocol and
\* uninterceptProtocol again were told null, null and 'The scheme has not
\* been intercepted'
C7_Witness ==
    /\ Posted(<< "intercept", "unintercept", "unintercept" >>, "https")
    /\ ops[1].outcome = Invoked(NullArg)
    /\ ops[2].outcome = Invoked(NullArg)
    /\ ops[3].outcome =
           Invoked(ErrorArg("The scheme has not been intercepted"))
    /\ jobFactory.interceptors["https"] = NoHandler

\* C8: isProtocolHandled(s) called right after register<K>Protocol(s, h)
\* delivers true to the boolean callback; called right after a following
\* unregisterProtocol(s) it delivers true exactly when s has a built-in
\* handler.
C8_HandledAfterRegister ==
    \A i \in 1..(Len(ops) - 1) :
        ( /\ ops[i + 1].op = "isHandled"
          /\ ops[i + 1].scheme = ops[i].scheme
          /\ ops[i + 1].outcome # Pending )
        => /\ ops[i].op = "register"
              => ops[i + 1].outcome = Invoked(BoolArg(TRUE))
           /\ ops[i].op = "unregister"
              => ops[i + 1].outcome =
                     Invoked(BoolArg(ops[i].scheme \in BuiltinSchemes))

\* C8 (witness): foo, which has no built-in handler, was registered and
\* unregistered, and isProtocolHandled("foo") then delivered false
C8_Witness ==
    /\ Posted(<< "register", "unregister", "isHandled" >>, "foo")
    /\ ops[1].result.error = PROTOCOL_OK
    /\ ops[2].result.error = PROTOCOL_OK
    /\ ops[3].outcome = Invoked(BoolArg(FALSE))

\* C9: when the controller is destroyed after a mutating operation was
\* posted and before its reply runs, the reply does nothing: the completion
\* callback is not invoked, then or later, and nothing but the reply's own
\* bookkeeping changes.
C9_ReplyAfterDestroyIsNoOp ==
    [][ /\ (ReplyStep /\ ~alive)
           => /\ RepliedAfter.outcome.state # "invoked"
              /\ << alive, jobFactory, ioQueue >>' = << alive, jobFactory, ioQueue >>
        /\ \A i \in 1..Len(ops) :
              (ops[i].op \in Mutating /\ ops[i].outcome.state = "dropped")
              => ops'[i].outcome = ops[i].outcome
      ]_vars

\* C9 (witness): unregisterProtocol("foo", cb) was posted and ran on the
\* I/O thread, the controller was destroyed, and the reply ran without
\* invoking cb
C9_Witness ==
    /\ ~alive
    /\ Posted(<< "unregister" >>, "foo")
    /\ ops[1].callback = "cb"
    /\ ops[1].result = ErrorResult(PROTOCOL_NOT_REGISTERED)
    /\ ops[1].outcome = Dropped
    /\ replyQueue = << >>

\* C10: the reply of a mutating operation, run on the control thread with
\* the controller alive, invokes nothing when no completion callback was
\* supplied, passes null when the status is OK, and for every other status
\* passes an error whose message is the fixed message of that status.
C10_CompletionReport ==
    [][ (ReplyStep /\ alive)
        => /\ Replied.callback = NullCallback
              => RepliedAfter.outcome = NotInvoked
           /\ (Replied.callback # NullCallback
                 /\ Replied.result.error = PROTOCOL_OK)
              => RepliedAfter.outcome = Invoked(NullArg)
           /\ (Replied.callback # NullCallback
                 /\ Replied.result.error # PROTOCOL_OK)
              => RepliedAfter.outcome =
                     Invoked(ErrorArg(MessageOf[Replied.result.error]))
      ]_vars

\* C10 (witness): a reply with status FAIL told its callback 'Failed to
\* manipulate protocol factory' and a reply without callback invoked nothing
C10_Witness ==
    /\ Len(ops) = 2
    /\ ops[1].callback = "cb"
    /\ ops[1].result = ErrorResult(PROTOCOL_FAIL)
    /\ ops[1].outcome =
           Invoked(ErrorArg("Failed to manipulate protocol factory"))
    /\ ops[2].callback = NullCallback
    /\ ops[2].outcome = NotInvoked

\* the number of operations whose task has run
TasksRun == Len(ops) - Len(ioQueue)

\* the job factory of a fresh context after the tasks of the first n of the
\* operations ran one after the other, in call order
RECURSIVE InCallOrder(_, _)
InCallOrder(operations, n) ==
    IF n = 0
    THEN FreshJobFactory
    ELSE IOTask(operations[n], InCallOrder(operations, n - 1)).jf

\* the value the task of the n-th operation returns when the tasks run in
\* call order
ReturnedInCallOrder(operations, n) ==
    LET r == IOTask(operations[n], InCallOrder(operations, n - 1)).ret
    IN  IF operations[n].op = "isHandled" THEN BoolResult(r) ELSE ErrorResult(r)

\* C11: the operations posted through one controller take effect on the job
\* factory in call order and their replies run in call order: the tasks that
\* have run are those of the operations called first, each one saw the job
\* factory the tasks before it left, and the reply of an operation has not
\* run before the reply of an operation called earlier.
C11_IssueOrder ==
    /\ \A i \in 1..Len(ops) : ops[i].result # NoResult <=> i <= TasksRun
    /\ jobFactory = InCallOrder(ops, TasksRun)
    /\ \A i \in 1..TasksRun : ops[i].result = ReturnedInCallOrder(ops, i)
    /\ \A i, j \in 1..Len(ops) :
          (i < j /\ ops[j].outcome # Pending) => ops[i].outcome # Pending

\* C11 (witness): registerStringProtocol("foo") then unregisterProtocol("foo"):
\* the unregistration found the handler the registration had installed, and
\* both callbacks were told null
C11_Witness ==
    /\ Posted(<< "register", "unregister" >>, "foo")
    /\ ops[1].result = ErrorResult(PROTOCOL_OK)
    /\ ops[2].result = ErrorResult(PROTOCOL_OK)
    /\ ops[1].outcome = Invoked(NullArg)
    /\ ops[2].outcome = Invoked(NullArg)
    /\ jobFactory = FreshJobFactory

\* how many times operation i stands in a queue
Queued(queue, i) == Cardinality({ k \in 1..Len(queue) : queue[k] = i })

\* operation i has been posted / its task has run / its callback has run
IsPosted(i) == Len(ops) >= i
HasRun(i) == Len(ops) >= i /\ ops[i].result # NoResult
WasInvoked(i) == Len(ops) >= i /\ ops[i].outcome.state = "invoked"

\* C12: with both threads scheduled fairly, the task of every posted
\* operation eventually runs on the I/O thread, and the callback of an
\* operation posted with one is eventually invoked unless the controller is
\* destroyed; it is invoked once: an operation waits for its task, or waits
\* for its reply, or has had its reply, its reply is the one step that
\* settles what became of its callback, and that stays settled.
C12_EventuallyOnce ==
    /\ \A i \in 1..MaxOps : IsPosted(i) ~> HasRun(i)
    /\ \A i \in 1..MaxOps :
          (IsPosted(i) /\ ops[i].callback # NullCallback)
              ~> (WasInvoked(i) \/ ~alive)
    /\ [](\A i \in 1..Len(ops) :
             Queued(ioQueue, i) + Queued(replyQueue, i)
                 + (IF ops[i].outcome # Pending THEN 1 ELSE 0) = 1)
    /\ [][ \A i \in 1..Len(ops) :
              ops'[i].outcome # ops[i].outcome
              => /\ ops[i].outcome = Pending
                 /\ replyQueue # << >>
                 /\ Head(replyQueue) = i
                 /\ replyQueue' = Tail(replyQueue) ]_vars

\* C12 (witness): three operations were posted with a callback, the
\* controller is still there, and every callback has been invoked
C12_Witness ==
    /\ alive
    /\ Len(ops) = 3
    /\ ioQueue = << >>
    /\ replyQueue = << >>
    /\ \A i \in 1..3 : ops[i].callback # NullCallback /\ WasInvoked(i)
    /\ \E i \in 1..3 : ops[i].op \in Mutating

\* this step runs the task at the head of the I/O thread's queue
AnyIOStep == ioQueue # << >> /\ ioQueue' = Tail(ioQueue)

\* in such a step: the calls into the job factory the task makes
Calls == ops'[Head(ioQueue)].calls

\* the calls of a task that calls these methods, in this order
OnIO(methods) ==
    [ i \in 1..Len(methods) |->
        [ thread |-> BrowserThreadIO, method |-> methods[i] ] ]

\* C13 (as claimed): every operation run on the I/O thread makes exactly one
\* call into the job factory before it returns its status.
C13_Original ==
    [][ AnyIOStep => Len(Calls) = 1 ]_vars

\* C13 (amended): every operation run on the I/O thread makes one or two
\* calls into the job factory before it returns its status: the query calls
\* IsHandledProtocol once, unintercept calls UninterceptProtocol once, and
\* unregister calls HasProtocolHandler and then, only when a handler is
\* registered, SetProtocolHandler.
C13_OneOrTwoCalls ==
    [][ /\ AnyIOStep => Len(Calls) \in { 1, 2 }
        /\ IOStep("isHandled") => Calls = OnIO(<< "IsHandledProtocol" >>)
        /\ IOStep("unintercept") => Calls = OnIO(<< "UninterceptProtocol" >>)
        /\ IOStep("unregister")
           => Calls = IF jobFactory.handlers[Task.scheme] = NoHandler
                      THEN OnIO(<< "HasProtocolHandler" >>)
                      ELSE OnIO(<< "HasProtocolHandler", "SetProtocolHandler" >>)
      ]_vars

\* C13 (witness): foo was registered; the first unregisterProtocol("foo")
\* looked the handler up and cleared it, the second one only looked it up
C13_Witness ==
    /\ Posted(<< "register", "unregister", "unregister" >>, "foo")
    /\ ops[2].result = ErrorResult(PROTOCOL_OK)
    /\ Len(ops[2].calls) = 2
    /\ ops[2].calls[2].method = "SetProtocolHandler"
    /\ ops[3].result = ErrorResult(PROTOCOL_NOT_REGISTERED)
    /\ Len(ops[3].calls) = 1
    /\ ops[3].calls[1].method = "HasProtocolHandler"

\* C14: the job factory is read and written by tasks on the I/O thread
\* only: every call into it recorded for an operation was made on the I/O
\* thread, every value returned for an operation comes with such a call, and
\* a step of the control thread (a method call, a reply, the destruction of
\* the controller) neither changes the job factory nor makes a call into it.
C14_JobFactoryOnIOThreadOnly ==
    /\ [](\A i \in 1..Len(ops) :
             /\ \A k \in 1..Len(ops[i].calls) :
                   ops[i].calls[k].thread = BrowserThreadIO
             /\ ops[i].result # NoResult => ops[i].calls # << >>)
    /\ [][ ~AnyIOStep
           => /\ jobFactory' = jobFactory
              /\ \A i \in 1..Len(ops) :
                    /\ ops'[i].calls = ops[i].calls
                    /\ ops'[i].result = ops[i].result
              /\ \A i \in (Len(ops) + 1)..Len(ops') :
                    /\ ops'[i].calls = << >>
                    /\ ops'[i].result = NoResult ]_vars

\* C14 (witness): isProtocolHandled, uninterceptProtocol and
\* unregisterProtocol of foo had their replies on the control thread, and
\* each one's call into the job factory was made on the I/O thread
C14_Witness ==
    /\ Posted(<< "isHandled", "unintercept", "unregister" >>, "foo")
    /\ \A i \in 1..3 :
          /\ ops[i].outcome.state = "invoked"
          /\ Len(ops[i].calls) = 1
          /\ ops[i].calls[1].thread = "IO"
    /\ jobFactory = FreshJobFactory

\* this step runs, on the control thread, the reply of isProtocolHandled
BooleanReplyStep ==
    /\ replyQueue # << >>
    /\ replyQueue' = Tail(replyQueue)
    /\ ops[Head(replyQueue)].op = "isHandled"

\* C15: when the controller is destroyed after isProtocolHandled(s, cb) was
\* posted and before its reply runs, the reply does nothing: cb is not
\* invoked.
C15_BooleanReplyAfterDestroyIsNoOp ==
    [][ (BooleanReplyStep /\ ~alive)
        => RepliedAfter.outcome.state # "invoked" ]_vars

\* the per-scheme state machine of the job factory: the status a mutating
\* operation completes with and the job factory it leaves
StateMachine(operation, jf) ==
    LET s == operation.scheme
        registered == jf.handlers[s] # NoHandler
        handled == registered \/ s \in BuiltinSchemes
        intercepted == jf.interceptors[s] # NoHandler
    IN  CASE operation.op = "register" ->
                 IF handled
                 THEN << PROTOCOL_REGISTERED, jf >>
                 ELSE << PROTOCOL_OK,
                         [ jf EXCEPT !.handlers[s] = operation.handler ] >>
          [] operation.op = "unregister" ->
                 IF registered
                 THEN << PROTOCOL_OK, [ jf EXCEPT !.handlers[s] = NoHandler ] >>
                 ELSE << PROTOCOL_NOT_REGISTERED, jf >>
          [] operation.op = "intercept" ->
                 IF intercepted
                 THEN << PROTOCOL_INTERCEPTED, jf >>
                 ELSE << PROTOCOL_OK,
                         [ jf EXCEPT !.interceptors[s] = operation.handler ] >>
          [] operation.op = "unintercept" ->
                 IF intercepted
                 THEN << PROTOCOL_OK,
                         [ jf EXCEPT !.interceptors[s] = NoHandler ] >>
                 ELSE << PROTOCOL_NOT_INTERCEPTED, jf >>

\* C16: destroying the controller does not cancel a mutating operation
\* that was posted: its task can still run, it completes with the status
\* and leaves the job factory as it would with the controller alive, and
\* only its reply is discarded.
C16_DestroyDoesNotCancel ==
    /\ [](ioQueue # << >> => ENABLED RunIOTask)
    /\ [][ (AnyIOStep /\ Task.op \in Mutating)
           => << Status, jobFactory' >> = StateMachine(Task, jobFactory) ]_vars
    /\ [][ (ReplyStep /\ ~alive)
           => /\ RepliedAfter.outcome = Dropped
              /\ RepliedAfter.result = Replied.result
              /\ jobFactory' = jobFactory ]_vars

\* C16 (witness): foo was registered and its callback told null;
\* unregisterProtocol("foo", cb) was posted and the controller destroyed:
\* foo is unregistered all the same, and cb was never invoked
C16_Witness ==
    /\ ~alive
    /\ Posted(<< "register", "unregister" >>, "foo")
    /\ ops[1].outcome = Invoked(NullArg)
    /\ ops[2].callback = "cb"
    /\ ops[2].result = ErrorResult(PROTOCOL_OK)
    /\ ops[2].outcome = Dropped
    /\ jobFactory.handlers["foo"] = NoHandler

\* the status each mutating operation fails with
FailureOf ==
    [ kind \in Mutating |->
        CASE kind = "register" -> PROTOCOL_REGISTERED
          [] kind = "unregister" -> PROTOCOL_NOT_REGISTERED
          [] kind = "intercept" -> PROTOCOL_INTERCEPTED
          [] kind = "unintercept" -> PROTOCOL_NOT_INTERCEPTED ]

\* C17: a mutating operation that completes with a status other than OK
\* completes with the failure status of its kind and leaves the job factory
\* as it was: the registered handler and the override of every scheme are
\* the same as before.
C17_FailureLeavesJobFactory ==
    [][ (AnyIOStep /\ Task.op \in Mutating /\ Status # PROTOCOL_OK)
        => /\ Status = FailureOf[Task.op]
           /\ \A s \in Schemes :
                 /\ jobFactory'.handlers[s] = jobFactory.handlers[s]
                 /\ jobFactory'.interceptors[s] = jobFactory.interceptors[s]
      ]_vars

\* C17 (witness): foo was intercepted with h1; unregisterProtocol("foo") was
\* told 'The scheme has not been registered', a second interception with h2
\* was told 'The scheme has been intercepted', and the override is still h1
C17_Witness ==
    /\ Posted(<< "intercept", "unregister", "intercept" >>, "foo")
    /\ ops[1].handler = Handler("String", "h1")
    /\ ops[3].handler = Handler("String", "h2")
    /\ ops[2].outcome = Invoked(ErrorArg("The scheme has not been registered"))
    /\ ops[3].outcome = Invoked(ErrorArg("The scheme has been intercepted"))
    /\ jobFactory.interceptors["foo"] = Handler("String", "h1")
    /\ jobFactory.handlers["foo"] = NoHandler

\* the two axes of the per-scheme state machine
IsRegistered(jf, s) == jf.handlers[s] # NoHandler
IsIntercepted(jf, s) == jf.interceptors[s] # NoHandler

\* C19: frame of the per-scheme state machine.  isProtocolHandled changes
\* nothing in the job factory; unregisterProtocol changes no scheme's
\* override and uninterceptProtocol no scheme's registration; an operation
\* on scheme s leaves the registration and the override of every other
\* scheme as they were; and before any operation every scheme of the context
\* is unregistered and not intercepted.
C19_StateMachineFrame ==
    /\ [](ops = << >> =>
             \A s \in Schemes :
                 ~IsRegistered(jobFactory, s) /\ ~IsIntercepted(jobFactory, s))
    /\ [][ /\ IOStep("isHandled") => jobFactory' = jobFactory
           /\ IOStep("unregister")
              => \A s \in Schemes :
                    jobFactory'.interceptors[s] = jobFactory.interceptors[s]
           /\ IOStep("unintercept")
              => \A s \in Schemes :
                    jobFactory'.handlers[s] = jobFactory.handlers[s]
           /\ AnyIOStep
              => \A t \in Schemes \ {Task.scheme} :
                    /\ jobFactory'.handlers[t] = jobFactory.handlers[t]
                    /\ jobFactory'.interceptors[t] = jobFactory.interceptors[t]
         ]_vars

\* C19 (witness): foo was registered, https intercepted, foo unregistered:
\* https is still intercepted and not registered, foo is back where it began
C19_Witness ==
    /\ Len(ops) = 3
    /\ ops[1].op = "register" /\ ops[1].scheme = "foo"
    /\ ops[2].op = "intercept" /\ ops[2].scheme = "https"
    /\ ops[3].op = "unregister" /\ ops[3].scheme = "foo"
    /\ \A i \in 1..3 : ops[i].result = ErrorResult(PROTOCOL_OK)
    /\ ~IsRegistered(jobFactory, "foo")
    /\ ~IsIntercepted(jobFactory, "foo")
    /\ ~IsRegistered(jobFactory, "https")
    /\ IsIntercepted(jobFactory, "https")

\* C18 (as claimed): a call that passes the gate with standard = false
\* leaves StandardSchemeList unchanged: getStandardSchemes() returns the
\* list of the most recent earlier call that had standard = true, or the
\* empty list if there was none, not the new input.
C18_Original ==
    [][ (CallStep /\ ~Requested(call'.options, "standard"))
        => /\ GetStandardSchemes' = GetStandardSchemes
           /\ GetStandardSchemes' = call.declared ]_vars

\* C18 (amended): a call that passes the gate with standard = false leaves
\* StandardSchemeList unchanged: getStandardSchemes() returns the list of
\* the most recent earlier call that had standard = true and a list that is
\* not empty, or the empty list if there was none, not the new input.
C18_NonStandardCallKeepsList ==
    [][ (CallStep /\ ~Requested(call'.options, "standard"))
        => /\ GetStandardSchemes' = GetStandardSchemes
           /\ GetStandardSchemes' = call.declaredSome ]_vars

\* C18 (witness): ["a"] was declared standard, then a call with no schemes
\* and standard true, then ["a","bc"] with standard false: the list is still
\* ["a"]
C18_Witness ==
    /\ ncalls = 3
    /\ call.schemes = << SchemeA, SchemeBC >>
    /\ ~Requested(call.options, "standard")
    /\ call.declared = << >>
    /\ call.declaredSome = << SchemeA >>
    /\ GetStandardSchemes = << SchemeA >>

\* the values of switch sw before this step are still there, in their order
Keeps(sw) ==
    /\ Len(commandLine'[sw]) >= Len(commandLine[sw])
    /\ SubSeq(commandLine'[sw], 1, Len(commandLine[sw])) = commandLine[sw]

\* the value this step appended to switch sw
Appended(sw) == commandLine'[sw][Len(commandLine'[sw])]

\* C20 (as claimed): the command line only accumulates: every call that
\* passes the gate appends, for each privilege class whose flag is true, one
\* switch valued with the call's own comma-joined list, after the switches
\* of the calls before it, and nothing else ever changes the command line.
C20_Original ==
    [][ /\ \A sw \in Switches : Keeps(sw)
        /\ CallStep
           => \A k \in Flags :
                 IF Requested(call'.options, k)
                 THEN /\ Appends(SwitchOf(k))
                      /\ IsCommaJoined(Appended(SwitchOf(k)), call'.schemes)
                 ELSE commandLine'[SwitchOf(k)] = commandLine[SwitchOf(k)]
        /\ ~CallStep => commandLine' = commandLine ]_vars

\* C20 (amended): the command line only accumulates: every call that passes
\* the gate appends, for each privilege class whose flag is true, one switch
\* valued with the call's own comma-joined list, after the switches of the
\* calls before it; a call with an empty scheme list appends the
\* service-worker switch only.  No step removes, replaces or merges a
\* switch appended before, and a class has at most one switch per call.
C20_SwitchesAccumulate ==
    /\ [][ /\ \A sw \in Switches : Keeps(sw)
           /\ CallStep
              => \A k \in Flags :
                    IF /\ Requested(call'.options, k)
                       /\ (call'.schemes # << >> \/ k = "allowServiceWorkers")
                    THEN /\ Appends(SwitchOf(k))
                         /\ IsCommaJoined(Appended(SwitchOf(k)), call'.schemes)
                    ELSE commandLine'[SwitchOf(k)] = commandLine[SwitchOf(k)]
           /\ ~CallStep => commandLine' = commandLine ]_vars
    /\ [](\A sw \in Switches : Len(commandLine[sw]) <= ncalls)

\* C20 (witness): after registerSchemesAsPrivileged(["a"]) and
\* registerSchemesAsPrivileged(["bc","a"], {standard: false}) the command
\* line holds standard-schemes=a, and secure-schemes=a followed by
\* secure-schemes=bc,a
C20_Witness ==
    /\ ncalls = 2
    /\ call.schemes = << SchemeBC, SchemeA >>
    /\ commandLine[kStandardSchemes] = << <<"a">> >>
    /\ commandLine[kSecureSchemes] = << <<"a">>, <<"b", "c", ",", "a">> >>
    /\ commandLine[kServiceWorkerSchemes] = commandLine[kSecureSchemes]
    /\ GetStandardSchemes = << SchemeA >>

=============================================================================
